---- MODULE Spec2Model ----
(***************************************************************************)
(* Model of easyfsl/utils.py: sliding_average, predict_embeddings,         *)
(* evaluate_on_one_task and evaluate.                                      *)
(*                                                                         *)
(* Tensors and lists are sequences.  Class indices are 0-based as in       *)
(* torch, so column j of a score row belongs to class j - 1.  A Python     *)
(* float obtained by dividing two small integers is represented by the     *)
(* reduced fraction <<numerator, denominator>>: two divisions give the     *)
(* same float exactly when they give the same reduced fraction.            *)
(***************************************************************************)
EXTENDS Integers, Sequences, FiniteSets, TLC

VARIABLES
    \* ---- evaluate / evaluate_on_one_task ----
    data_loader,          \* the finite sequence of episodes handed to evaluate
    pc,                   \* position of the running evaluate call
    idx,                  \* number of episodes taken from data_loader so far
    episode,              \* loop variables of the for statement (current episode)
    model,                \* the FewShotClassifier: mode flag and adapted state
    total_predictions,
    correct_predictions,
    predictions_all,
    query_labels_all,
    predictions,          \* score matrix returned by model(query_images)
    task_ret,             \* tuple returned by evaluate_on_one_task
    postfix,              \* running accuracy handed to tqdm_eval.set_postfix
    result,               \* outcome of the evaluate call
    calls,                \* log of the calls made on the model in this run
    call_no,              \* 1 for the first evaluate call, 2 for the repeated one
    prev,                 \* outcome of the first call, kept by the caller
    \* ---- sliding_average ----
    value_list,
    window,
    sa_out,
    \* ---- predict_embeddings ----
    pe_pc,
    batches,              \* batches the dataloader has yielded so far
    all_embeddings,
    all_class_names,
    pe_out

evalVars == <<data_loader, pc, idx, episode, model, total_predictions,
              correct_predictions, predictions_all, query_labels_all,
              predictions, task_ret, postfix, result, calls, call_no, prev>>
saVars == <<value_list, window, sa_out>>
peVars == <<pe_pc, batches, all_embeddings, all_class_names, pe_out>>
vars == <<evalVars, saVars, peVars>>

(***************************************************************************)
(* Bounds of the model                                                     *)
(***************************************************************************)
MaxEpisodes == 2      \* episodes in a data_loader
MaxTotal == 3         \* query items in a data_loader, all episodes together
MaxLen == 3           \* length of the list given to sliding_average
MaxBatches == 3       \* batches yielded to predict_embeddings
MaxBatchSize == 3     \* elements in one batch

Classes == {0, 1}                 \* class indices of a 2-way task
NWay == Cardinality(Classes)
Features == {0, 1}                \* an image is represented by one feature
Scores == {0, 1, 2}               \* entries of a free score matrix
Values == {0, 1, 3}               \* entries of value_list

(***************************************************************************)
(* Helpers                                                                 *)
(***************************************************************************)
SeqsUpTo(S, n) == UNION {[1..k -> S] : k \in 0..n}

Abs(x) == IF x < 0 THEN -x ELSE x

RECURSIVE GCD(_, _)
GCD(a, b) == IF b = 0 THEN a ELSE GCD(b, a % b)

RECURSIVE SumSeq(_)
SumSeq(s) == IF s = <<>> THEN 0 ELSE Head(s) + SumSeq(Tail(s))

RECURSIVE Flatten(_)
Flatten(ss) == IF ss = <<>> THEN <<>> ELSE Head(ss) \o Flatten(Tail(ss))

\* c / t for integers c >= 0, t > 0 (Python true division)
Ratio(c, t) == LET g == GCD(c, t) IN <<c \div g, t \div g>>

\* the absence of a number, of a table or of a recorded outcome; the status
\* field beside it tells an absent table from an empty one
None == <<>>

(***************************************************************************)
(* The FewShotClassifier handed to evaluate (easyfsl.methods): a           *)
(* nearest-prototype classifier.  process_support_set stores, per class,   *)
(* the feature of the support image of that class; the forward pass scores *)
(* a query image against class c by minus its distance to c's prototype.   *)
(***************************************************************************)
InitialPrototypes == [c \in Classes |-> 0]

ProcessSupportSetOf(support_images, support_labels) ==
    [c \in Classes |->
        support_images[CHOOSE i \in DOMAIN support_labels : support_labels[i] = c]]

Forward(prototypes, query_images) ==
    [i \in DOMAIN query_images |->
        [j \in 1..NWay |-> 0 - Abs(query_images[i] - prototypes[j - 1])]]

(***************************************************************************)
(* Episodes: 1-shot NWay-way support set with one image per class, labels  *)
(* in class order, and a query set of (image, label) items.                *)
(***************************************************************************)
SupportLabels == [j \in 1..NWay |-> j - 1]

SupportImageSets ==
    {s \in [1..NWay -> Features] : \A i, j \in 1..NWay : i # j => s[i] # s[j]}

\* the loader whose k-th episode has support set s[k] and the next sizes[k]
\* of the query items (qi[i], ql[i])
LoaderOf(sizes, s, qi, ql) ==
    [k \in DOMAIN sizes |->
        LET before == SumSeq(SubSeq(sizes, 1, k - 1)) IN
        [support_images |-> s[k], support_labels |-> SupportLabels,
         query_images |-> SubSeq(qi, before + 1, before + sizes[k]),
         query_labels |-> SubSeq(ql, before + 1, before + sizes[k])]]

\* loaders of at most MaxEpisodes episodes with at most MaxTotal query items
IsLoader(l) ==
    \E n \in 0..MaxEpisodes : \E sizes \in [1..n -> 0..MaxTotal] :
        /\ SumSeq(sizes) <= MaxTotal
        /\ \E s \in [1..n -> SupportImageSets],
              qi \in [1..SumSeq(sizes) -> Features],
              ql \in [1..SumSeq(sizes) -> Classes] :
                l = LoaderOf(sizes, s, qi, ql)

NoEpisode == [support_images |-> <<>>, support_labels |-> <<>>,
              query_images |-> <<>>, query_labels |-> <<>>]

(***************************************************************************)
(* evaluate_on_one_task, lines 105-111                                     *)
(***************************************************************************)
\* a slip: the index of the first minimal entry
ArgMin(row) ==
    (CHOOSE j \in 1..Len(row) :
        /\ \A k \in 1..Len(row) : row[k] >= row[j]
        /\ \A k \in 1..(j - 1) : row[k] > row[j]) - 1

\* torch.max(row)[1]: the 0-based index of the first maximal entry

ArgMax(row) ==
    (CHOOSE j \in 1..Len(row) :
        /\ \A k \in 1..Len(row) : row[k] <= row[j]
        /\ \A k \in 1..(j - 1) : row[k] < row[j]) - 1

\* torch.max(predictions, 1)[1]
MaxDim1Indices(scores) == [i \in DOMAIN scores |-> ArgMax(scores[i])]

\* (a == b).sum().item() for two 1-D tensors of the same length
CountEqual(a, b) == Cardinality({i \in DOMAIN a : a[i] = b[i]})

TaskReturn(scores, query_labels) ==
    <<CountEqual(MaxDim1Indices(scores), query_labels),
      Len(query_labels),
      MaxDim1Indices(scores),
      query_labels>>

(***************************************************************************)
(* evaluate                                                                *)
(***************************************************************************)
NoResult == [status |-> "running", value |-> None]

\* what one finished evaluate call leaves: its return value (or error) and
\* the two arrays the printed metrics are computed from
Outcome == [result |-> result, predictions_all |-> predictions_all,
            query_labels_all |-> query_labels_all]

EvalOnly == UNCHANGED <<saVars, peVars>>

\* a slip: the aggregate lives outside the call and is not reset
BeginKeepsAggregate ==
    /\ pc = "start"
    /\ model' = [model EXCEPT !.training = FALSE]
    /\ calls' = Append(calls, [op |-> "eval"])
    /\ idx' = 0
    /\ pc' = "loop"
    /\ UNCHANGED <<data_loader, episode, predictions, task_ret, postfix, result,
                   call_no, prev, total_predictions, correct_predictions,
                   predictions_all, query_labels_all>>
    /\ EvalOnly

\* lines 134-150: counters and collections reset, model.eval(), iterator opened
Begin ==
    /\ pc = "start"
    /\ total_predictions' = 0
    /\ correct_predictions' = 0
    /\ model' = [model EXCEPT !.training = FALSE]
    /\ calls' = Append(calls, [op |-> "eval"])
    /\ predictions_all' = <<>>
    /\ query_labels_all' = <<>>
    /\ idx' = 0
    /\ pc' = "loop"
    /\ UNCHANGED <<data_loader, episode, predictions, task_ret, postfix, result,
                   call_no, prev>>
    /\ EvalOnly

\* a slip: the query set is classified with whatever state the model is in
ProcessSupportSetSkipped ==
    /\ pc = "loop"
    /\ idx < Len(data_loader)
    /\ idx' = idx + 1
    /\ episode' = data_loader[idx + 1]
    /\ pc' = "forward"
    /\ UNCHANGED <<data_loader, model, calls, total_predictions, correct_predictions,
                   predictions_all, query_labels_all, predictions, task_ret,
                   postfix, result, call_no, prev>>
    /\ EvalOnly

\* lines 151-163, 182-188 and 103: the next episode is taken from the loader
\* and evaluate_on_one_task adapts the model to its support set
ProcessSupportSet ==
    /\ pc = "loop"
    /\ idx < Len(data_loader)
    /\ idx' = idx + 1
    /\ episode' = data_loader[idx + 1]
    /\ model' = [model EXCEPT !.prototypes =
                    ProcessSupportSetOf(data_loader[idx + 1].support_images,
                                        data_loader[idx + 1].support_labels)]
    /\ calls' = Append(calls, [op |-> "process_support_set", episode |-> idx + 1,
                                 training |-> model.training])
    /\ pc' = "forward"
    /\ UNCHANGED <<data_loader, total_predictions, correct_predictions,
                   predictions_all, query_labels_all, predictions, task_ret,
                   postfix, result, call_no, prev>>
    /\ EvalOnly

\* lines 104-111 with the score matrix the model returns
EvaluateOnOneTask(scores) ==
    /\ pc = "forward"
    /\ predictions' = scores
    /\ task_ret' = TaskReturn(scores, episode.query_labels)
    /\ calls' = Append(calls, [op |-> "forward", episode |-> idx,
                                 prototypes |-> model.prototypes,
                                 training |-> model.training])
    /\ pc' = "accumulate"
    /\ UNCHANGED <<data_loader, idx, episode, model, total_predictions,
                   correct_predictions, predictions_all, query_labels_all,
                   postfix, result, call_no, prev>>
    /\ EvalOnly

\* line 104 inside evaluate: the model classifies the episode's query images
Classify == EvaluateOnOneTask(Forward(model.prototypes, episode.query_images))

\* a slip: the counter counts episodes, not query items
AccumulateCountsEpisodes ==
    /\ pc = "accumulate"
    /\ total_predictions' = total_predictions + 1
    /\ correct_predictions' = correct_predictions + task_ret[1]
    /\ predictions_all' = predictions_all \o task_ret[3]
    /\ query_labels_all' = query_labels_all \o task_ret[4]
    /\ pc' = "postfix"
    /\ UNCHANGED <<data_loader, idx, episode, model, predictions, task_ret,
                   postfix, result, calls, call_no, prev>>
    /\ EvalOnly

\* a slip: the newest predictions are put in front of the collection
AccumulatePrepends ==
    /\ pc = "accumulate"
    /\ total_predictions' = total_predictions + task_ret[2]
    /\ correct_predictions' = correct_predictions + task_ret[1]
    /\ predictions_all' = task_ret[3] \o predictions_all
    /\ query_labels_all' = query_labels_all \o task_ret[4]
    /\ pc' = "postfix"
    /\ UNCHANGED <<data_loader, idx, episode, model, predictions, task_ret,
                   postfix, result, calls, call_no, prev>>
    /\ EvalOnly

\* lines 182, 190-194
Accumulate ==
    /\ pc = "accumulate"
    /\ total_predictions' = total_predictions + task_ret[2]
    /\ correct_predictions' = correct_predictions + task_ret[1]
    /\ predictions_all' = predictions_all \o task_ret[3]
    /\ query_labels_all' = query_labels_all \o task_ret[4]
    /\ pc' = "postfix"
    /\ UNCHANGED <<data_loader, idx, episode, model, predictions, task_ret,
                   postfix, result, calls, call_no, prev>>
    /\ EvalOnly

\* line 197: the argument of set_postfix is computed whether or not the
\* progress bar is shown; dividing by zero raises ZeroDivisionError
SetPostfix ==
    /\ pc = "postfix"
    /\ IF total_predictions = 0
          THEN /\ result' = [status |-> "ZeroDivisionError", value |-> None]
               /\ pc' = "failed"
               /\ UNCHANGED postfix
          ELSE /\ postfix' = Ratio(correct_predictions, total_predictions)
               /\ pc' = "loop"
               /\ UNCHANGED result
    /\ UNCHANGED <<data_loader, idx, episode, model, total_predictions,
                   correct_predictions, predictions_all, query_labels_all,
                   predictions, task_ret, calls, call_no, prev>>
    /\ EvalOnly

\* a slip: the mean is taken over the episodes
ReturnPerEpisode ==
    /\ pc = "loop"
    /\ idx = Len(data_loader)
    /\ IF idx = 0
          THEN /\ result' = [status |-> "ZeroDivisionError", value |-> None]
               /\ pc' = "failed"
          ELSE /\ result' = [status |-> "returned",
                              value |-> Ratio(correct_predictions, idx)]
               /\ pc' = "done"
    /\ UNCHANGED <<data_loader, idx, episode, model, total_predictions,
                   correct_predictions, predictions_all, query_labels_all,
                   predictions, task_ret, postfix, calls, call_no, prev>>
    /\ EvalOnly

\* lines 200-217 once the loader is exhausted: the arrays are converted and
\* the metrics printed, then the ratio is returned; dividing by zero raises
Return ==
    /\ pc = "loop"
    /\ idx = Len(data_loader)
    /\ IF total_predictions = 0
          THEN /\ result' = [status |-> "ZeroDivisionError", value |-> None]
               /\ pc' = "failed"
          ELSE /\ result' = [status |-> "returned",
                              value |-> Ratio(correct_predictions, total_predictions)]
               /\ pc' = "done"
    /\ UNCHANGED <<data_loader, idx, episode, model, total_predictions,
                   correct_predictions, predictions_all, query_labels_all,
                   predictions, task_ret, postfix, calls, call_no, prev>>
    /\ EvalOnly

\* the caller calls evaluate again with the same model and the same loader
CallAgain ==
    /\ pc \in {"done", "failed"}
    /\ call_no = 1
    /\ prev' = Outcome
    /\ call_no' = 2
    /\ result' = NoResult
    /\ postfix' = None
    /\ calls' = <<>>
    /\ pc' = "start"
    /\ UNCHANGED <<data_loader, idx, episode, model, total_predictions,
                   correct_predictions, predictions_all, query_labels_all,
                   predictions, task_ret>>
    /\ EvalOnly

EvalInit ==
    /\ pc = "start"
    /\ idx = 0
    /\ episode = NoEpisode
    /\ model = [training |-> TRUE, prototypes |-> InitialPrototypes]
    /\ total_predictions = 0
    /\ correct_predictions = 0
    /\ predictions_all = <<>>
    /\ query_labels_all = <<>>
    /\ predictions = <<>>
    /\ task_ret = <<0, 0, <<>>, <<>>>>
    /\ postfix = None
    /\ result = NoResult
    /\ calls = <<>>
    /\ call_no = 1
    /\ prev = None

SAPending == [status |-> "pending", value |-> None]
PEPending == [status |-> "pending", table |-> None]

SAIdle == value_list = <<>> /\ window = 0 /\ sa_out = SAPending
PEIdle == pe_pc = "idle" /\ batches = <<>> /\ all_embeddings = <<>>
          /\ all_class_names = <<>> /\ pe_out = PEPending

Init == IsLoader(data_loader) /\ EvalInit /\ SAIdle /\ PEIdle

Next ==
    \/ Begin
    \/ ProcessSupportSet
    \/ Classify
    \/ Accumulate
    \/ SetPostfix
    \/ Return

Spec == Init /\ [][Next]_vars

\* evaluate called twice in a row on the same model and loader
NextTwice == Next \/ CallAgain

SpecTwice == Init /\ [][NextTwice]_vars

\* evaluate_on_one_task on its own, with a model whose forward pass may
\* return any score matrix with one row per query item
TaskEpisodes ==
    UNION {{[support_images |-> SupportLabels, support_labels |-> SupportLabels,
             query_images |-> [i \in 1..n |-> 0], query_labels |-> ql] :
                ql \in [1..n -> Classes]} : n \in 0..MaxTotal}

InitTask ==
    /\ episode \in TaskEpisodes
    /\ data_loader = <<episode>>
    /\ pc = "forward"
    /\ idx = 1
    /\ model = [training |-> FALSE,
                prototypes |-> ProcessSupportSetOf(SupportLabels, SupportLabels)]
    /\ total_predictions = 0
    /\ correct_predictions = 0
    /\ predictions_all = <<>>
    /\ query_labels_all = <<>>
    /\ predictions = <<>>
    /\ task_ret = <<0, 0, <<>>, <<>>>>
    /\ postfix = None
    /\ result = NoResult
    /\ calls = <<>>
    /\ call_no = 1
    /\ prev = None
    /\ SAIdle /\ PEIdle

ClassifyAny ==
    \E scores \in [1..Len(episode.query_labels) -> [1..NWay -> Scores]] :
        EvaluateOnOneTask(scores)

NextTask == ClassifyAny

SpecTask == InitTask /\ [][NextTask]_vars

(***************************************************************************)
(* sliding_average                                                         *)
(***************************************************************************)
\* a slip: the first elements are taken instead of the last ones
PySliceUpTo(s, start) ==
    SubSeq(s, 1, IF Abs(start) > Len(s) THEN Len(s) ELSE Abs(start))

\* s[start:] for a Python list: a negative start counts from the end, and a
\* start outside the list is clamped to it
PySliceFrom(s, start) ==
    LET n == Len(s)
        from == IF start < 0
                  THEN (IF start + n < 0 THEN 0 ELSE start + n)
                  ELSE (IF start > n THEN n ELSE start)
    IN SubSeq(s, from + 1, n)

\* np.asarray(s).mean(); the mean of an empty array is nan, written <<0, 0>>
NpMean(s) == IF s = <<>> THEN <<0, 0>> ELSE Ratio(SumSeq(s), Len(s))

EvalIdle == data_loader = <<>> /\ EvalInit

InitSA ==
    /\ value_list \in SeqsUpTo(Values, MaxLen)
    /\ window \in (0 - MaxLen - 1)..(MaxLen + 1)
    /\ sa_out = SAPending
    /\ EvalIdle /\ PEIdle

\* a slip: the emptiness check is missing
SlidingAverageUnchecked ==
    /\ sa_out = SAPending
    /\ sa_out' = [status |-> "returned",
                  value |-> NpMean(PySliceFrom(value_list, 0 - window))]
    /\ UNCHANGED <<value_list, window, evalVars, peVars>>

\* lines 51-53
SlidingAverage ==
    /\ sa_out = SAPending
    /\ IF Len(value_list) = 0
          THEN sa_out' = [status |-> "ValueError", value |-> None]
          ELSE sa_out' = [status |-> "returned",
                          value |-> NpMean(PySliceFrom(value_list, 0 - window))]
    /\ UNCHANGED <<value_list, window, evalVars, peVars>>

NextSA == SlidingAverage

SpecSA == InitSA /\ [][NextSA]_vars

(***************************************************************************)
(* predict_embeddings                                                      *)
(***************************************************************************)
\* The dataset: element k of the stream has image k and class name k % 2.
\* The feature extractor maps an image to a 2-dimensional embedding.
ClassNameOf(k) == k % 2

Embed(image) == <<image, image * image>>

\* model(images): one embedding row per image of the batch
ModelOutput(images) == [i \in DOMAIN images |-> Embed(images[i])]

\* the batch of n elements that follows `seen` elements of the stream; its
\* class names come as a tensor or as a plain list
BatchAfter(seen, n, is_tensor) ==
    [images |-> [i \in 1..n |-> seen + i],
     class_names |-> [is_tensor |-> is_tensor,
                      items |-> [i \in 1..n |-> ClassNameOf(seen + i)]]]

\* Tensor.tolist()
ToList(tensor) == tensor.items

InitPE ==
    /\ pe_pc = "start"
    /\ batches = <<>>
    /\ all_embeddings = <<>>
    /\ all_class_names = <<>>
    /\ pe_out = PEPending
    /\ EvalIdle /\ SAIdle

PEOnly == UNCHANGED <<evalVars, saVars>>

\* lines 71-74
PE_Begin ==
    /\ pe_pc = "start"
    /\ all_embeddings' = <<>>
    /\ all_class_names' = <<>>
    /\ pe_pc' = "loop"
    /\ UNCHANGED <<batches, pe_out>>
    /\ PEOnly

\* lines 74-83 for one batch
PE_Batch ==
    /\ pe_pc = "loop"
    /\ Len(batches) < MaxBatches
    /\ \E n \in 0..MaxBatchSize, is_tensor \in BOOLEAN :
          LET b == BatchAfter(Len(all_class_names), n, is_tensor) IN
          /\ batches' = Append(batches, b)
          /\ all_embeddings' = Append(all_embeddings, ModelOutput(b.images))
          /\ all_class_names' =
                all_class_names \o (IF b.class_names.is_tensor
                                      THEN ToList(b.class_names)
                                      ELSE b.class_names.items)
    /\ UNCHANGED <<pe_pc, pe_out>>
    /\ PEOnly

\* line 79 when the model raises on the batch: the exception leaves the call
PE_BatchFails ==
    /\ pe_pc = "loop"
    /\ Len(batches) < MaxBatches
    /\ \E n \in 0..MaxBatchSize, is_tensor \in BOOLEAN :
          batches' = Append(batches, BatchAfter(Len(all_class_names), n, is_tensor))
    /\ pe_out' = [status |-> "ModelError", table |-> None]
    /\ pe_pc' = "failed"
    /\ UNCHANGED <<all_embeddings, all_class_names>>
    /\ PEOnly

\* lines 85-89 once the dataloader is exhausted: torch.cat raises on an empty
\* list of tensors, pd.DataFrame raises on columns of different lengths
PE_Finish ==
    /\ pe_pc = "loop"
    /\ IF all_embeddings = <<>>
          THEN /\ pe_out' = [status |-> "RuntimeError", table |-> None]
               /\ pe_pc' = "failed"
          ELSE LET concatenated_embeddings == Flatten(all_embeddings) IN
               IF Len(concatenated_embeddings) # Len(all_class_names)
                 THEN /\ pe_out' = [status |-> "ValueError", table |-> None]
                      /\ pe_pc' = "failed"
                 ELSE /\ pe_out' =
                            [status |-> "returned",
                             table |-> [i \in DOMAIN concatenated_embeddings |->
                                          [embedding |-> concatenated_embeddings[i],
                                           class_name |-> all_class_names[i]]]]
                      /\ pe_pc' = "done"
    /\ UNCHANGED <<batches, all_embeddings, all_class_names>>
    /\ PEOnly

NextPE ==
    \/ PE_Begin
    \/ PE_Batch
    \/ PE_BatchFails
    \/ PE_Finish

SpecPE == InitPE /\ [][NextPE]_vars

(***************************************************************************)
(* Reference values, computed from the loader alone                        *)
(***************************************************************************)
\* episodes whose results have been added to the running aggregate
NAccumulated == IF pc \in {"forward", "accumulate"} THEN idx - 1 ELSE idx

FirstEpisodes(n) == SubSeq(data_loader, 1, n)

\* labels the classifier gives episode e's query items once adapted to e's
\* own support set
RefPredicted(e) ==
    MaxDim1Indices(Forward(ProcessSupportSetOf(e.support_images, e.support_labels),
                           e.query_images))

RefCorrect(e) ==
    Cardinality({i \in DOMAIN e.query_labels : RefPredicted(e)[i] = e.query_labels[i]})

RECURSIVE SumCorrect(_)
SumCorrect(eps) ==
    IF eps = <<>> THEN 0 ELSE RefCorrect(Head(eps)) + SumCorrect(Tail(eps))

RECURSIVE SumQuery(_)
SumQuery(eps) ==
    IF eps = <<>> THEN 0 ELSE Len(Head(eps).query_labels) + SumQuery(Tail(eps))

RECURSIVE AllPredicted(_)
AllPredicted(eps) ==
    IF eps = <<>> THEN <<>> ELSE RefPredicted(Head(eps)) \o AllPredicted(Tail(eps))

RECURSIVE AllLabels(_)
AllLabels(eps) ==
    IF eps = <<>> THEN <<>> ELSE Head(eps).query_labels \o AllLabels(Tail(eps))

\* sum of the per-episode accuracies as an unreduced fraction
RECURSIVE SumAccuracies(_)
SumAccuracies(eps) ==
    IF eps = <<>> THEN <<0, 1>>
    ELSE LET r == SumAccuracies(Tail(eps))
             c == RefCorrect(Head(eps))
             t == Len(Head(eps).query_labels)
         IN <<c * r[2] + r[1] * t, t * r[2]>>

MeanEpisodeAccuracy(eps) ==
    Ratio(SumAccuracies(eps)[1], SumAccuracies(eps)[2] * Len(eps))

\* the calls evaluate is to make on the model for the first n episodes
RECURSIVE ExpectedCalls(_)
ExpectedCalls(n) ==
    IF n = 0 THEN <<[op |-> "eval"]>>
    ELSE ExpectedCalls(n - 1) \o
         <<[op |-> "process_support_set", episode |-> n, training |-> FALSE],
           [op |-> "forward", episode |-> n, training |-> FALSE,
            prototypes |-> ProcessSupportSetOf(data_loader[n].support_images,
                                               data_loader[n].support_labels)]>>

(***************************************************************************)
(* Claims                                                                  *)
(***************************************************************************)
\* C1: once the counters are initialised, correct_predictions never exceeds
\* total_predictions and total_predictions is the sum of the query-set sizes
\* of the episodes accumulated so far (so both are 0 before the first one).
C1_CountersInvariant ==
    pc # "start" =>
        /\ correct_predictions >= 0
        /\ correct_predictions <= total_predictions
        /\ total_predictions = SumQuery(FirstEpisodes(NAccumulated))

C1_Witness ==
    /\ pc = "done"
    /\ Len(data_loader) = 2
    /\ total_predictions = 3
    /\ correct_predictions = 2

\* C2: the value evaluate returns is the number of correctly classified
\* query items of all episodes divided by the number of query items of all
\* episodes, and the running accuracy after episode k is that ratio over
\* episodes 1..k.
C2_OverallAccuracy ==
    /\ pc = "done" =>
          /\ result.status = "returned"
          /\ result.value = Ratio(SumCorrect(data_loader), SumQuery(data_loader))
    /\ (pc = "loop" /\ idx > 0) =>
          postfix = Ratio(SumCorrect(FirstEpisodes(idx)), SumQuery(FirstEpisodes(idx)))

\* a run whose overall accuracy differs from the mean of its episodes'
\* accuracies, and whose running accuracy changed between the episodes
C2_Witness ==
    /\ pc = "done"
    /\ Len(data_loader) = 2
    /\ \A k \in 1..2 : Len(data_loader[k].query_labels) > 0
    /\ result.value # MeanEpisodeAccuracy(data_loader)
    /\ result.value = <<1, 3>>
    /\ MeanEpisodeAccuracy(data_loader) = <<1, 2>>

\* C4: the model is put in evaluation mode first, then for each episode in
\* loader order it is adapted to that episode's support set and afterwards
\* classifies that episode's query set in the adapted state; an episode is
\* adapted only after the previous one has been accumulated, and a call that
\* returns has processed every episode exactly once.
C4_CallOrder ==
    /\ pc # "start" =>
          /\ model.training = FALSE
          /\ calls = IF pc = "forward"
                        THEN Append(ExpectedCalls(idx - 1),
                                    [op |-> "process_support_set", episode |-> idx,
                                     training |-> FALSE])
                        ELSE ExpectedCalls(idx)
    /\ pc = "forward" => Len(predictions_all) = SumQuery(FirstEpisodes(idx - 1))
    /\ pc = "done" => idx = Len(data_loader)

C4_Witness ==
    /\ pc = "done"
    /\ Len(data_loader) = 2
    /\ data_loader[1].support_images # data_loader[2].support_images
    /\ Len(calls) = 5

\* C5: the two collections have the length total_predictions and hold, index
\* by index, the predicted and the true label of the same query item,
\* episodes in processing order and items in episode order; the number of
\* indices where they agree is correct_predictions.
C5_PairedCollections ==
    pc # "start" =>
        /\ Len(predictions_all) = total_predictions
        /\ Len(query_labels_all) = total_predictions
        /\ predictions_all = AllPredicted(FirstEpisodes(NAccumulated))
        /\ query_labels_all = AllLabels(FirstEpisodes(NAccumulated))
        /\ Cardinality({i \in DOMAIN predictions_all :
                           predictions_all[i] = query_labels_all[i]})
             = correct_predictions

C5_Witness ==
    /\ pc = "done"
    /\ Len(data_loader) = 2
    /\ predictions_all = <<0, 1, 1>>
    /\ query_labels_all = <<0, 0, 1>>
    /\ Len(data_loader[1].query_labels) = 1

\* C9: a second evaluate call on the same loader and model ends as the
\* first one did: same return value (or error) and same collected arrays.
C9_SecondCallSame ==
    (call_no = 2 /\ pc \in {"done", "failed"}) => Outcome = prev

C9_Witness ==
    /\ call_no = 2
    /\ pc = "done"
    /\ Len(data_loader) = 2
    /\ data_loader[1].support_images # data_loader[2].support_images
    /\ result.value = <<2, 3>>
    /\ prev.result.value = <<2, 3>>

\* C10: when the query-set sizes of the loader sum to a positive number, no
\* division executed by evaluate has total_predictions = 0.
C10_NoZeroDivision ==
    SumQuery(data_loader) > 0 => result.status # "ZeroDivisionError"

RECURSIVE SumRange(_, _, _)
SumRange(s, lo, hi) == IF lo > hi THEN 0 ELSE s[lo] + SumRange(s, lo + 1, hi)

\* number of trailing elements a window stands for: all of them when the
\* window is 0 or exceeds the length
EffectiveWindow == IF window = 0 \/ window > Len(value_list)
                     THEN Len(value_list) ELSE window

C6_MeanOfLastWindow ==
    (sa_out.status # "pending" /\ Len(value_list) > 0 /\ window >= 0) =>
        /\ sa_out.status = "returned"
        /\ sa_out.value =
             Ratio(SumRange(value_list, Len(value_list) - EffectiveWindow + 1,
                            Len(value_list)),
                   EffectiveWindow)

\* C6: for a non-empty list and a window >= 0, sliding_average returns the
\* mean of the last window elements (of all elements when the window is 0 or
\* exceeds the length), and the list is left as it was.
C6_SlidingAverage == []C6_MeanOfLastWindow /\ [][value_list' = value_list]_vars

C6_Witness ==
    /\ sa_out.status # "pending"
    /\ value_list = <<3, 0, 1>>
    /\ window = 2
    /\ sa_out.value = <<1, 2>>

\* C7: on an empty list sliding_average raises ValueError for every window
\* and returns no number.
C7_EmptyRaises ==
    (sa_out.status # "pending" /\ value_list = <<>>) =>
        (sa_out.status = "ValueError" /\ sa_out.value = None)

C7_Witness ==
    /\ value_list = <<>>
    /\ window < 0
    /\ sa_out.status # "pending"
    /\ sa_out.status = "ValueError"

\* elements of the batches consumed so far, in stream order
RECURSIVE ElementsOf(_)
ElementsOf(bs) ==
    IF bs = <<>> THEN <<>>
    ELSE [i \in DOMAIN Head(bs).images |->
            [image |-> Head(bs).images[i], class_name |-> Head(bs).class_names.items[i]]]
         \o ElementsOf(Tail(bs))

TableOfConsumed ==
    /\ pe_out.status = "returned"
    /\ Len(pe_out.table) = Len(ElementsOf(batches))
    /\ \A i \in DOMAIN pe_out.table :
          /\ pe_out.table[i].embedding = Embed(ElementsOf(batches)[i].image)
          /\ pe_out.table[i].class_name = ElementsOf(batches)[i].class_name

\* C8: over any finite sequence of batches predict_embeddings returns a
\* table with one row per input element, in batch order then in-batch order,
\* each row pairing the embedding and the label of the same element; no
\* table exists before the last batch is consumed, and a failing batch ends
\* the call without a table.
C8_TablePerElement ==
    /\ pe_pc \in {"start", "loop"} => pe_out = PEPending
    /\ pe_out.status = "ModelError" => pe_out.table = None
    /\ pe_out.status \notin {"pending", "ModelError"} => TableOfConsumed

\* the same statement for dataloaders that yield at least one batch
PE_TableWhenBatches ==
    /\ pe_pc \in {"start", "loop"} => pe_out = PEPending
    /\ pe_out.status = "ModelError" => pe_out.table = None
    /\ (pe_out.status \notin {"pending", "ModelError"} /\ batches # <<>>) =>
          TableOfConsumed

PE_ScenarioReached ==
    /\ pe_pc = "done"
    /\ Len(batches) = 3
    /\ Len(batches[1].images) = 2
    /\ Len(batches[2].images) = 3
    /\ Len(batches[3].images) = 1
    /\ Len(pe_out.table) = 6

====
